---- MODULE Spec2Model ----
(***************************************************************************)
(* Model of src/app.py: a Flask service whose six route handlers wrap      *)
(* their work in OpenTelemetry spans (tracer.start_as_current_span), plus  *)
(* the global error handler handle_exception.                              *)
(*                                                                         *)
(* Every statement of a handler is one step of the worker thread that      *)
(* serves the request; pc values are the source line numbers ("L22" is     *)
(* line 22, "X22" is the exit of the with-block opened at line 22).        *)
(* Durations are integers in microseconds; a sleep is accounted in tenths  *)
(* of a microsecond so that delay * 0.3 is exact.                          *)
(***************************************************************************)
EXTENDS Integers, Sequences, FiniteSets, TLC

(* ------------------------------ bounds --------------------------------- *)

\* Requests the server accepts in one run.
MaxRequests == 2

\* random.uniform(a, b) is drawn from NumDraws + 1 evenly spaced points of [a, b].
NumDraws == 2

(* ------------------------- program constants --------------------------- *)

UsersDelayLo == 10000
UsersDelayHi == 50000
OrdersDelayLo == 20000
OrdersDelayHi == 80000
SlowDelayLo == 500000
SlowDelayHi == 2000000

\* delay * 0.3, delay * 0.4, delay * 0.3, in tenths
Step1Tenths == 3
Step2Tenths == 4
\* Mutant: step 3 sleeps the fraction of step 2.
Step3TenthsAsStep2 == Step2Tenths
Step3Tenths == 3
Tenths == 10

HttpOk == 200
HttpError == 500

(* ------------------------------ fixtures ------------------------------- *)

\* The worker threads of the server, one request each at a time.
Threads == {"t1", "t2"}

\* The routes registered with @app.route, by handler.
RouteOf ==
  [ home           |-> "/",
    health         |-> "/health",
    get_users      |-> "/api/users",
    get_orders     |-> "/api/orders",
    slow_endpoint  |-> "/api/slow",
    error_endpoint |-> "/api/error" ]

Handlers == DOMAIN RouteOf

\* First line of each handler's body.
EntryOf ==
  [ home           |-> "L22",
    health         |-> "L34",
    get_users      |-> "L43",
    get_orders     |-> "L71",
    slow_endpoint  |-> "L107",
    error_endpoint |-> "L138" ]

HomeEndpoints == << "/", "/health", "/api/users", "/api/orders", "/api/slow" >>

Users ==
  << [id |-> 1, name |-> "Alice",   email |-> "alice@example.com"],
     [id |-> 2, name |-> "Bob",     email |-> "bob@example.com"],
     [id |-> 3, name |-> "Charlie", email |-> "charlie@example.com"] >>

\* Order totals are in cents.
Orders ==
  << [id |-> 101, user_id |-> 1, total |-> 9999,  status |-> "shipped"],
     [id |-> 102, user_id |-> 2, total |-> 14950, status |-> "pending"],
     [id |-> 103, user_id |-> 1, total |-> 2999,  status |-> "delivered"] >>

RECURSIVE SumTotals(_)
SumTotals(os) == IF os = << >> THEN 0 ELSE Head(os).total + SumTotals(Tail(os))

\* random.uniform(lo, hi): the points lo + d * (hi - lo) / NumDraws.
Uniform(lo, hi) == { lo + (d * (hi - lo)) \div NumDraws : d \in 0..NumDraws }

\* round(delay * 1000, 2): microseconds to hundredths of a millisecond,
\* ties to even.
RoundCentiMs(us) ==
  LET q == us \div 10
      r == us % 10
  IN  IF r > 5 \/ (r = 5 /\ q % 2 = 1) THEN q + 1 ELSE q

(* ------------------------------- state --------------------------------- *)

VARIABLES
  instrumented,  \* the Flask auto-instrumentation wraps each request in a server span
  admitted,      \* requests accepted so far
  route,         \* per thread: the handler serving its request, or "none"
  pc,            \* per thread: the statement it is about to execute
  ctx,           \* per thread: the span that is current in its context
  tokens,        \* per thread: the contexts saved by attach, innermost last
  spans,         \* per thread: the spans started for its request, by index
  handle,        \* per thread: the handler's local span variables
  delay,         \* per thread: the handler's local `delay`
  slept,         \* per thread: total time slept, in tenths of a microsecond
  exc,           \* per thread: the exception in flight
  retval,        \* per thread: the value built by return jsonify(...)
  response       \* per thread: the response handed to the client

vars == << instrumented, admitted, route, pc, ctx, tokens, spans, handle,
           delay, slept, exc, retval, response >>

\* trace.INVALID_SPAN: what get_current_span returns when no span is current.
NoSpan == << "none", 0 >>

NoAttrs == [k \in {} |-> 0]

NoExc == [type |-> "", msg |-> ""]

NoValue == [code |-> 0, body |-> NoAttrs]

NoHandles ==
  [ span |-> NoSpan, db_span |-> NoSpan, step1 |-> NoSpan, step2 |-> NoSpan,
    step3 |-> NoSpan, current_span |-> NoSpan ]

NewSpan(name, parent, kind) ==
  [ name |-> name, parent |-> parent, kind |-> kind, recording |-> TRUE,
    endCalls |-> 0, status |-> "UNSET", description |-> << >>,
    attributes |-> NoAttrs, events |-> << >> ]

SpanAt(sps, h) == sps[h[1]][h[2]]

IsRecording(sps, h) == h # NoSpan /\ SpanAt(sps, h).recording

(* --------------------------- the span API ------------------------------ *)

\* Mutant: the current span kept in one process-wide cell instead of the
\* caller's context.
GetCurrentSpanGlobal(t) == ctx["t1"]

\* trace.get_current_span(): the span of the caller's own context.
GetCurrentSpan(t) == ctx[t]

\* Span.set_attribute: a later value for the same key overwrites.
SetAttribute(sps, h, k, v) ==
  IF IsRecording(sps, h)
    THEN [sps EXCEPT ![h[1]][h[2]].attributes = (k :> v) @@ @]
    ELSE sps

\* Span.add_event: appended in call order.
AddEvent(sps, h, name, payload) ==
  IF IsRecording(sps, h)
    THEN [sps EXCEPT ![h[1]][h[2]].events =
                        Append(@, [name |-> name, attributes |-> payload])]
    ELSE sps

\* Span.set_status: ignored once the status is OK, and on an ended span.
SetStatus(sps, h, code, description) ==
  IF IsRecording(sps, h) /\ SpanAt(sps, h).status # "OK"
    THEN [sps EXCEPT ![h[1]][h[2]].status = code,
                     ![h[1]][h[2]].description = description]
    ELSE sps

\* Span.record_exception: an "exception" event with the error's type and message.
RecordException(sps, h, e) ==
  AddEvent(sps, h, "exception",
           ("exception.type" :> e.type) @@ ("exception.message" :> e.msg))

\* Mutant: a span ended without an explicit status is given status OK.
EndSpanInfersOk(sps, h) ==
  IF h = NoSpan THEN sps
  ELSE [sps EXCEPT ![h[1]][h[2]].recording = FALSE,
                   ![h[1]][h[2]].endCalls = @ + 1,
                   ![h[1]][h[2]].status = IF @ = "UNSET" THEN "OK" ELSE @]

\* Span.end: the first call ends the span, every call is counted.
EndSpan(sps, h) ==
  IF h = NoSpan THEN sps
  ELSE [sps EXCEPT ![h[1]][h[2]].recording = FALSE,
                   ![h[1]][h[2]].endCalls = @ + 1]

\* What the with-block does to its span when an exception leaves it:
\* record_exception and set_status(ERROR, "<type>: <message>").
OnException(sps, h, e) ==
  IF e = NoExc THEN sps
  ELSE SetStatus(RecordException(sps, h, e), h, "ERROR",
                 << e.type, ": ", e.msg >>)

(* ------------------------------ Init ----------------------------------- *)

Init ==
  /\ instrumented \in BOOLEAN
  /\ admitted = 0
  /\ route = [t \in Threads |-> "none"]
  /\ pc = [t \in Threads |-> "idle"]
  /\ ctx = [t \in Threads |-> NoSpan]
  /\ tokens = [t \in Threads |-> << >>]
  /\ spans = [t \in Threads |-> << >>]
  /\ handle = [t \in Threads |-> NoHandles]
  /\ delay = [t \in Threads |-> 0]
  /\ slept = [t \in Threads |-> 0]
  /\ exc = [t \in Threads |-> NoExc]
  /\ retval = [t \in Threads |-> NoValue]
  /\ response = [t \in Threads |-> NoValue]

(* ------------------------- statement steps ----------------------------- *)

Goto(t, next) == pc' = [pc EXCEPT ![t] = next]

\* Mutant: the span is started as a root, whatever span is current.
StartSpanAsRoot(t, name, var, next) ==
  LET id == << t, Len(spans[t]) + 1 >>
  IN  /\ spans' = [spans EXCEPT ![t] = Append(@, NewSpan(name, NoSpan, "INTERNAL"))]
      /\ tokens' = [tokens EXCEPT ![t] = Append(@, ctx[t])]
      /\ ctx' = [ctx EXCEPT ![t] = id]
      /\ handle' = [handle EXCEPT ![t][var] = id]
      /\ Goto(t, next)
      /\ UNCHANGED << instrumented, admitted, route, delay, slept, exc, retval, response >>

\* with tracer.start_as_current_span(name) as var: start a span whose parent
\* is the current span, bind it to var, make it current.
StartAsCurrentSpan(t, name, var, next) ==
  LET id == << t, Len(spans[t]) + 1 >>
  IN  /\ spans' = [spans EXCEPT ![t] = Append(@, NewSpan(name, GetCurrentSpan(t), "INTERNAL"))]
      /\ tokens' = [tokens EXCEPT ![t] = Append(@, ctx[t])]
      /\ ctx' = [ctx EXCEPT ![t] = id]
      /\ handle' = [handle EXCEPT ![t][var] = id]
      /\ Goto(t, next)
      /\ UNCHANGED << instrumented, admitted, route, delay, slept, exc, retval, response >>

\* Mutant: the span is ended by a plain call at the end of the block, which an
\* exception skips.
ExitSpanNoFinally(t, var, next, outer) ==
  /\ ctx' = [ctx EXCEPT ![t] = tokens[t][Len(tokens[t])]]
  /\ tokens' = [tokens EXCEPT ![t] = SubSeq(@, 1, Len(@) - 1)]
  /\ spans' = IF exc[t] # NoExc THEN spans ELSE EndSpan(spans, handle[t][var])
  /\ Goto(t, IF exc[t] # NoExc \/ retval[t] # NoValue THEN outer ELSE next)
  /\ UNCHANGED << instrumented, admitted, route, handle, delay, slept, exc, retval, response >>

\* Mutant: the span is ended but the previous context is not restored.
ExitSpanNoDetach(t, var, next, outer) ==
  /\ spans' = EndSpan(OnException(spans, handle[t][var], exc[t]), handle[t][var])
  /\ Goto(t, IF exc[t] # NoExc \/ retval[t] # NoValue THEN outer ELSE next)
  /\ UNCHANGED << instrumented, admitted, route, ctx, tokens, handle, delay, slept, exc, retval, response >>

\* The exit of a with-block: detach the context, on an exception record it on
\* the span, end the span.  `next` is the statement after the block; a return
\* or an exception in flight leaves the enclosing block or the handler instead.
ExitSpan(t, var, next, outer) ==
  /\ ctx' = [ctx EXCEPT ![t] = tokens[t][Len(tokens[t])]]
  /\ tokens' = [tokens EXCEPT ![t] = SubSeq(@, 1, Len(@) - 1)]
  /\ spans' = EndSpan(OnException(spans, handle[t][var], exc[t]), handle[t][var])
  /\ Goto(t, IF exc[t] # NoExc \/ retval[t] # NoValue THEN outer ELSE next)
  /\ UNCHANGED << instrumented, admitted, route, handle, delay, slept, exc, retval, response >>

AttrStep(t, var, k, v, next) ==
  /\ spans' = SetAttribute(spans, handle[t][var], k, v)
  /\ Goto(t, next)
  /\ UNCHANGED << instrumented, admitted, route, ctx, tokens, handle, delay, slept, exc, retval, response >>

EventStep(t, var, name, payload, next) ==
  /\ spans' = AddEvent(spans, handle[t][var], name, payload)
  /\ Goto(t, next)
  /\ UNCHANGED << instrumented, admitted, route, ctx, tokens, handle, delay, slept, exc, retval, response >>

\* Mutant: the status is set with StatusCode.OK whatever code was meant.
StatusStepAlwaysOk(t, var, code, description, next) ==
  /\ spans' = SetStatus(spans, handle[t][var], "OK", description)
  /\ Goto(t, next)
  /\ UNCHANGED << instrumented, admitted, route, ctx, tokens, handle, delay, slept, exc, retval, response >>

StatusStep(t, var, code, description, next) ==
  /\ spans' = SetStatus(spans, handle[t][var], code, description)
  /\ Goto(t, next)
  /\ UNCHANGED << instrumented, admitted, route, ctx, tokens, handle, delay, slept, exc, retval, response >>

\* delay = random.uniform(lo, hi)
DrawStep(t, lo, hi, next) ==
  /\ \E d \in Uniform(lo, hi) : delay' = [delay EXCEPT ![t] = d]
  /\ Goto(t, next)
  /\ UNCHANGED << instrumented, admitted, route, ctx, tokens, spans, handle, slept, exc, retval, response >>

\* time.sleep(delay * tenths / 10)
SleepStep(t, tenths, next) ==
  /\ slept' = [slept EXCEPT ![t] = @ + delay[t] * tenths]
  /\ Goto(t, next)
  /\ UNCHANGED << instrumented, admitted, route, ctx, tokens, spans, handle, delay, exc, retval, response >>

\* return jsonify(body): the value is built inside the with-block, which is
\* then left.
ReturnStep(t, body, code, next) ==
  /\ retval' = [retval EXCEPT ![t] = [code |-> code, body |-> body]]
  /\ Goto(t, next)
  /\ UNCHANGED << instrumented, admitted, route, ctx, tokens, spans, handle, delay, slept, exc, response >>

\* raise e
RaiseStep(t, e, next) ==
  /\ exc' = [exc EXCEPT ![t] = e]
  /\ Goto(t, next)
  /\ UNCHANGED << instrumented, admitted, route, ctx, tokens, spans, handle, delay, slept, retval, response >>

(* ------------------------------ Flask ---------------------------------- *)

\* A request arrives and is dispatched to its handler; with the
\* auto-instrumentation on, the request's server span is started and made
\* current first.
Accept(t) ==
  /\ pc[t] = "idle"
  /\ admitted < MaxRequests
  /\ admitted' = admitted + 1
  /\ \E h \in Handlers :
       /\ route' = [route EXCEPT ![t] = h]
       /\ pc' = [pc EXCEPT ![t] = EntryOf[h]]
       /\ IF instrumented
            THEN /\ spans' = [spans EXCEPT ![t] = << NewSpan(RouteOf[h], NoSpan, "SERVER") >>]
                 /\ ctx' = [ctx EXCEPT ![t] = << t, 1 >>]
            ELSE UNCHANGED << spans, ctx >>
  /\ UNCHANGED << instrumented, tokens, handle, delay, slept, exc, retval, response >>

home(t) ==
  \/ pc[t] = "L22" /\ StartAsCurrentSpan(t, "home_handler", "span", "L23")
  \/ pc[t] = "L23" /\ AttrStep(t, "span", "endpoint", "/", "L24")
  \/ pc[t] = "L24" /\ AttrStep(t, "span", "handler", "home", "L25")
  \/ pc[t] = "L25" /\ EventStep(t, "span", "Returning welcome message", NoAttrs, "L27")
  \/ pc[t] = "L27" /\ ReturnStep(t, [message |-> "Welcome to the traced web app!",
                                     endpoints |-> HomeEndpoints], HttpOk, "X22")
  \/ pc[t] = "X22" /\ ExitSpan(t, "span", "left", "left")

health(t) ==
  \/ pc[t] = "L34" /\ StartAsCurrentSpan(t, "health_check", "span", "L35")
  \/ pc[t] = "L35" /\ AttrStep(t, "span", "endpoint", "/health", "L36")
  \/ pc[t] = "L36" /\ AttrStep(t, "span", "status", "healthy", "L37")
  \/ pc[t] = "L37" /\ EventStep(t, "span", "Health check performed", NoAttrs, "L39")
  \/ pc[t] = "L39" /\ ReturnStep(t, [status |-> "healthy", timestamp |-> "time.time()"],
                                 HttpOk, "X34")
  \/ pc[t] = "X34" /\ ExitSpan(t, "span", "left", "left")

get_users(t) ==
  \/ pc[t] = "L43" /\ StartAsCurrentSpan(t, "get_users", "span", "L44")
  \/ pc[t] = "L44" /\ AttrStep(t, "span", "endpoint", "/api/users", "L45")
  \/ pc[t] = "L45" /\ AttrStep(t, "span", "operation", "fetch_users", "L48")
  \/ pc[t] = "L48" /\ StartAsCurrentSpan(t, "database_query", "db_span", "L49")
  \/ pc[t] = "L49" /\ AttrStep(t, "db_span", "db.system", "postgresql", "L50")
  \/ pc[t] = "L50" /\ AttrStep(t, "db_span", "db.operation", "SELECT", "L51")
  \/ pc[t] = "L51" /\ AttrStep(t, "db_span", "db.table", "users", "L53")
  \/ pc[t] = "L53" /\ DrawStep(t, UsersDelayLo, UsersDelayHi, "L54")
  \/ pc[t] = "L54" /\ SleepStep(t, Tenths, "L55")
  \/ pc[t] = "L55" /\ AttrStep(t, "db_span", "db.query_time_ms", RoundCentiMs(delay[t]), "L56")
  \/ pc[t] = "L56" /\ EventStep(t, "db_span", "Users fetched from database", NoAttrs, "X48")
  \/ pc[t] = "X48" /\ ExitSpan(t, "db_span", "L64", "X43")
  \/ pc[t] = "L64" /\ AttrStep(t, "span", "user.count", Len(Users), "L65")
  \/ pc[t] = "L65" /\ EventStep(t, "span", "Users retrieved successfully",
                                "count" :> Len(Users), "L67")
  \/ pc[t] = "L67" /\ ReturnStep(t, [users |-> Users, count |-> Len(Users)], HttpOk, "X43")
  \/ pc[t] = "X43" /\ ExitSpan(t, "span", "left", "left")

get_orders(t) ==
  \/ pc[t] = "L71" /\ StartAsCurrentSpan(t, "get_orders", "span", "L72")
  \/ pc[t] = "L72" /\ AttrStep(t, "span", "endpoint", "/api/orders", "L73")
  \/ pc[t] = "L73" /\ AttrStep(t, "span", "operation", "fetch_orders", "L76")
  \/ pc[t] = "L76" /\ StartAsCurrentSpan(t, "database_query", "db_span", "L77")
  \/ pc[t] = "L77" /\ AttrStep(t, "db_span", "db.system", "postgresql", "L78")
  \/ pc[t] = "L78" /\ AttrStep(t, "db_span", "db.operation", "SELECT", "L79")
  \/ pc[t] = "L79" /\ AttrStep(t, "db_span", "db.table", "orders", "L81")
  \/ pc[t] = "L81" /\ DrawStep(t, OrdersDelayLo, OrdersDelayHi, "L82")
  \/ pc[t] = "L82" /\ SleepStep(t, Tenths, "L83")
  \/ pc[t] = "L83" /\ AttrStep(t, "db_span", "db.query_time_ms", RoundCentiMs(delay[t]), "L84")
  \/ pc[t] = "L84" /\ EventStep(t, "db_span", "Orders fetched from database", NoAttrs, "X76")
  \/ pc[t] = "X76" /\ ExitSpan(t, "db_span", "L95", "X71")
  \/ pc[t] = "L95" /\ AttrStep(t, "span", "order.count", Len(Orders), "L96")
  \/ pc[t] = "L96" /\ AttrStep(t, "span", "order.total_value", SumTotals(Orders), "L97")
  \/ pc[t] = "L97" /\ EventStep(t, "span", "Orders retrieved successfully",
                                ("count" :> Len(Orders)) @@ ("total_value" :> SumTotals(Orders)),
                                "L102")
  \/ pc[t] = "L102" /\ ReturnStep(t, [orders |-> Orders, count |-> Len(Orders)], HttpOk, "X71")
  \/ pc[t] = "X71" /\ ExitSpan(t, "span", "left", "left")

slow_endpoint(t) ==
  \/ pc[t] = "L107" /\ StartAsCurrentSpan(t, "slow_operation", "span", "L108")
  \/ pc[t] = "L108" /\ AttrStep(t, "span", "endpoint", "/api/slow", "L109")
  \/ pc[t] = "L109" /\ AttrStep(t, "span", "operation", "slow_process", "L111")
  \/ pc[t] = "L111" /\ DrawStep(t, SlowDelayLo, SlowDelayHi, "L112")
  \/ pc[t] = "L112" /\ AttrStep(t, "span", "expected_delay_seconds", delay[t], "L113")
  \/ pc[t] = "L113" /\ EventStep(t, "span", "Starting slow operation", "delay" :> delay[t], "L116")
  \/ pc[t] = "L116" /\ StartAsCurrentSpan(t, "step_1_processing", "step1", "L117")
  \/ pc[t] = "L117" /\ AttrStep(t, "step1", "step", 1, "L118")
  \/ pc[t] = "L118" /\ SleepStep(t, Step1Tenths, "L119")
  \/ pc[t] = "L119" /\ EventStep(t, "step1", "Step 1 completed", NoAttrs, "X116")
  \/ pc[t] = "X116" /\ ExitSpan(t, "step1", "L121", "X107")
  \/ pc[t] = "L121" /\ StartAsCurrentSpan(t, "step_2_processing", "step2", "L122")
  \/ pc[t] = "L122" /\ AttrStep(t, "step2", "step", 2, "L123")
  \/ pc[t] = "L123" /\ SleepStep(t, Step2Tenths, "L124")
  \/ pc[t] = "L124" /\ EventStep(t, "step2", "Step 2 completed", NoAttrs, "X121")
  \/ pc[t] = "X121" /\ ExitSpan(t, "step2", "L126", "X107")
  \/ pc[t] = "L126" /\ StartAsCurrentSpan(t, "step_3_processing", "step3", "L127")
  \/ pc[t] = "L127" /\ AttrStep(t, "step3", "step", 3, "L128")
  \/ pc[t] = "L128" /\ SleepStep(t, Step3Tenths, "L129")
  \/ pc[t] = "L129" /\ EventStep(t, "step3", "Step 3 completed", NoAttrs, "X126")
  \/ pc[t] = "X126" /\ ExitSpan(t, "step3", "L131", "X107")
  \/ pc[t] = "L131" /\ EventStep(t, "span", "Slow operation completed", NoAttrs, "L133")
  \/ pc[t] = "L133" /\ ReturnStep(t, [message |-> "Slow response completed",
                                      delay_seconds |-> delay[t]], HttpOk, "X107")
  \/ pc[t] = "X107" /\ ExitSpan(t, "span", "left", "left")

\* if random.random() < 0.5: either branch may be taken.
BranchStep(t, then, else) ==
  /\ \E fail \in BOOLEAN : Goto(t, IF fail THEN then ELSE else)
  /\ UNCHANGED << instrumented, admitted, route, ctx, tokens, spans, handle, delay, slept, exc, retval, response >>

error_endpoint(t) ==
  \/ pc[t] = "L138" /\ StartAsCurrentSpan(t, "error_operation", "span", "L139")
  \/ pc[t] = "L139" /\ AttrStep(t, "span", "endpoint", "/api/error", "L140")
  \/ pc[t] = "L140" /\ AttrStep(t, "span", "operation", "risky_operation", "L142")
  \/ pc[t] = "L142" /\ BranchStep(t, "L143", "L148")
  \/ pc[t] = "L143" /\ StatusStep(t, "span", "ERROR", << "Random error occurred" >>, "L144")
  \/ pc[t] = "L144" /\ AttrStep(t, "span", "error", TRUE, "L145")
  \/ pc[t] = "L145" /\ EventStep(t, "span", "Error triggered", "error_type" :> "ValueError", "L146")
  \/ pc[t] = "L146" /\ RaiseStep(t, [type |-> "ValueError", msg |-> "Random error occurred!"], "X138")
  \/ pc[t] = "L148" /\ StatusStep(t, "span", "OK", << >>, "L149")
  \/ pc[t] = "L149" /\ EventStep(t, "span", "Operation completed without error", NoAttrs, "L151")
  \/ pc[t] = "L151" /\ ReturnStep(t, [message |-> "No error this time!"], HttpOk, "X138")
  \/ pc[t] = "X138" /\ ExitSpan(t, "span", "left", "left")

\* current_span = trace.get_current_span()
GetCurrentStep(t, next) ==
  /\ handle' = [handle EXCEPT ![t].current_span = GetCurrentSpan(t)]
  /\ Goto(t, next)
  /\ UNCHANGED << instrumented, admitted, route, ctx, tokens, spans, delay, slept, exc, retval, response >>

\* Mutant: the error handler does not record the exception.
RecordExceptionSkipped(t, next) ==
  /\ Goto(t, next)
  /\ UNCHANGED << instrumented, admitted, route, ctx, tokens, spans, handle, delay, slept, exc, retval, response >>

\* current_span.record_exception(e)
RecordExceptionStep(t, next) ==
  /\ spans' = RecordException(spans, handle[t].current_span, exc[t])
  /\ Goto(t, next)
  /\ UNCHANGED << instrumented, admitted, route, ctx, tokens, handle, delay, slept, exc, retval, response >>

\* Mutant: the error envelope is returned without the 500 status.
ErrorReturnOk(t, next) ==
  /\ retval' = [retval EXCEPT ![t] = [code |-> HttpOk, body |-> [error |-> exc[t].msg]]]
  /\ exc' = [exc EXCEPT ![t] = NoExc]
  /\ Goto(t, next)
  /\ UNCHANGED << instrumented, admitted, route, ctx, tokens, spans, handle, delay, slept, response >>

\* return jsonify({"error": str(e)}), 500: the exception is handled.
ErrorReturnStep(t, next) ==
  /\ retval' = [retval EXCEPT ![t] = [code |-> HttpError, body |-> [error |-> exc[t].msg]]]
  /\ exc' = [exc EXCEPT ![t] = NoExc]
  /\ Goto(t, next)
  /\ UNCHANGED << instrumented, admitted, route, ctx, tokens, spans, handle, delay, slept, response >>

\* `if current_span:` is always taken: get_current_span returns a span object
\* (INVALID_SPAN when none is current), and a span object is truthy.
handle_exception(t) ==
  \/ pc[t] = "L156" /\ GetCurrentStep(t, "L158")
  \/ pc[t] = "L158" /\ RecordExceptionStep(t, "L159")
  \/ pc[t] = "L159" /\ StatusStep(t, "current_span", "ERROR", << exc[t].msg >>, "L161")
  \/ pc[t] = "L161" /\ ErrorReturnStep(t, "send")

\* The handler has returned or raised: Flask sends the returned value, or
\* calls the registered error handler.
Dispatch(t) ==
  /\ pc[t] = "left"
  /\ Goto(t, IF exc[t] # NoExc THEN "L156" ELSE "send")
  /\ UNCHANGED << instrumented, admitted, route, ctx, tokens, spans, handle, delay, slept, exc, retval, response >>

Send(t) ==
  /\ pc[t] = "send"
  /\ response' = [response EXCEPT ![t] = retval[t]]
  /\ Goto(t, "sent")
  /\ UNCHANGED << instrumented, admitted, route, ctx, tokens, spans, handle, delay, slept, exc, retval >>

\* The request is torn down: the server span, if any, is ended and the thread
\* is free for the next request.
Teardown(t) ==
  /\ pc[t] = "sent"
  /\ route' = [route EXCEPT ![t] = "none"]
  /\ pc' = [pc EXCEPT ![t] = "idle"]
  /\ ctx' = [ctx EXCEPT ![t] = NoSpan]
  /\ tokens' = [tokens EXCEPT ![t] = << >>]
  /\ spans' = [spans EXCEPT ![t] = << >>]
  /\ handle' = [handle EXCEPT ![t] = NoHandles]
  /\ delay' = [delay EXCEPT ![t] = 0]
  /\ slept' = [slept EXCEPT ![t] = 0]
  /\ exc' = [exc EXCEPT ![t] = NoExc]
  /\ retval' = [retval EXCEPT ![t] = NoValue]
  /\ response' = [response EXCEPT ![t] = NoValue]
  /\ UNCHANGED << instrumented, admitted >>

Next ==
  \E t \in Threads :
    \/ Accept(t)
    \/ home(t)
    \/ health(t)
    \/ get_users(t)
    \/ get_orders(t)
    \/ slow_endpoint(t)
    \/ error_endpoint(t)
    \/ handle_exception(t)
    \/ Dispatch(t)
    \/ Send(t)
    \/ Teardown(t)

Spec == Init /\ [][Next]_vars

(* ------------------------- vocabulary of the claims -------------------- *)

\* The span that is current when the handler starts: the request's server
\* span under the auto-instrumentation, no span without it.
PreHandlerSpan(t) == IF instrumented THEN << t, 1 >> ELSE NoSpan

\* Indices of the spans the handler itself started.
HandlerSpanIdx(t) == { i \in 1..Len(spans[t]) : spans[t][i].kind = "INTERNAL" }

SpanNamed(t, name) == { i \in HandlerSpanIdx(t) : spans[t][i].name = name }

EventNames(s) == [ i \in 1..Len(s.events) |-> s.events[i].name ]

HasEvent(s, name) == \E i \in 1..Len(s.events) : s.events[i].name = name

Closed(s) == ~s.recording /\ s.endCalls = 1

InHandleException == { "L156", "L158", "L159", "L161" }

\* The handler's outermost with-block has been left.
AfterHandler == { "left", "send", "sent" } \cup InHandleException

Responded(t) == response[t].code # 0

\* Spans each handler starts on a complete run.
SpanNamesOf ==
  [ home           |-> << "home_handler" >>,
    health         |-> << "health_check" >>,
    get_users      |-> << "get_users", "database_query" >>,
    get_orders     |-> << "get_orders", "database_query" >>,
    slow_endpoint  |-> << "slow_operation", "step_1_processing",
                          "step_2_processing", "step_3_processing" >>,
    error_endpoint |-> << "error_operation" >> ]

Range(f) == { f[i] : i \in DOMAIN f }

(* ------------------------------- C1 ------------------------------------ *)

\* C1: every span a handler opens is closed exactly once on every exit path
\* (return, or the ValueError of error_endpoint), and all of them are closed
\* once the handler is left, hence before the 200 or 500 response is sent;
\* none is open after the response.
C1_SpansClosedExactlyOnce ==
  \A t \in Threads :
    /\ \A i \in HandlerSpanIdx(t) :
         /\ spans[t][i].endCalls <= 1
         /\ spans[t][i].recording <=> spans[t][i].endCalls = 0
    /\ pc[t] \in AfterHandler =>
         /\ [ i \in 1..Cardinality(HandlerSpanIdx(t)) |->
                spans[t][i + Len(spans[t]) - Cardinality(HandlerSpanIdx(t))].name ]
              = SpanNamesOf[route[t]]
         /\ \A i \in HandlerSpanIdx(t) : Closed(spans[t][i])
    /\ Responded(t) =>
         /\ pc[t] = "sent"
         /\ response[t].code \in { HttpOk, HttpError }

\* Both exit paths at once: a /api/slow request answered 200 with its four
\* spans closed, and a /api/error request answered 500 with its span closed.
C1_Witness ==
  /\ route["t1"] = "slow_endpoint" /\ response["t1"].code = HttpOk
  /\ Cardinality(HandlerSpanIdx("t1")) = 4
  /\ \A i \in HandlerSpanIdx("t1") : Closed(spans["t1"][i])
  /\ route["t2"] = "error_endpoint" /\ response["t2"].code = HttpError
  /\ \A i \in HandlerSpanIdx("t2") : Closed(spans["t2"][i])

(* ------------------------------- C2 ------------------------------------ *)

\* The innermost span of the handler that is still open, or the span that
\* was current before the handler when none is.
InnermostOpen(t) ==
  LET open == { i \in HandlerSpanIdx(t) : spans[t][i].recording }
  IN  IF open = {} THEN PreHandlerSpan(t)
      ELSE << t, CHOOSE i \in open : \A j \in open : j <= i >>

\* C2: an opened span becomes the current span of its request with the
\* previously current span as parent (a root if there was none), and closing
\* it restores the previous current span: the current span is always the
\* innermost open one, the outer span's parent is the span current before the
\* handler, every nested span's parent is the handler's outer span, and once
\* the handler is left, by return or by error, the current span is again the
\* one from before the handler.
C2_CurrentSpanScoping ==
  \A t \in Threads :
    pc[t] # "idle" =>
      /\ ctx[t] = InnermostOpen(t)
      /\ \A i \in HandlerSpanIdx(t) :
           IF spans[t][i].name = SpanNamesOf[route[t]][1]
             THEN spans[t][i].parent = PreHandlerSpan(t)
             ELSE /\ spans[t][i].parent = handle[t].span
                  /\ SpanAt(spans, handle[t].span).name = SpanNamesOf[route[t]][1]
      /\ pc[t] \in AfterHandler => ctx[t] = PreHandlerSpan(t) /\ tokens[t] = << >>

\* A nested span is open under an open outer span in one request while
\* another request has been left by the error path.
C2_Witness ==
  /\ route["t1"] = "get_users" /\ pc["t1"] = "L54"
  /\ ctx["t1"] = handle["t1"].db_span
  /\ SpanAt(spans, handle["t1"].db_span).parent = handle["t1"].span
  /\ route["t2"] = "error_endpoint" /\ pc["t2"] = "left" /\ exc["t2"] # NoExc
  /\ Len(spans["t2"]) >= 1

(* ------------------------------- C3 ------------------------------------ *)

\* The failing branch of error_endpoint was taken.
Failed(t) ==
  \E i \in SpanNamed(t, "error_operation") : HasEvent(spans[t][i], "Error triggered")

\* C3: /api/error answers 200 {message} on the non-failing branch; on the
\* failing branch the ValueError leaves error_endpoint unhandled and
\* handle_exception answers 500 {error: "Random error occurred!"}.  Every
\* other route answers 200 and never reaches handle_exception.
C3_Outcomes ==
  \A t \in Threads :
    /\ pc[t] \in InHandleException => route[t] = "error_endpoint" /\ Failed(t)
    /\ pc[t] = "left" /\ route[t] = "error_endpoint" /\ Failed(t) =>
         /\ exc[t] = [type |-> "ValueError", msg |-> "Random error occurred!"]
         /\ retval[t] = NoValue
    /\ pc[t] = "left" /\ ~Failed(t) => exc[t] = NoExc /\ retval[t].code = HttpOk
    /\ Responded(t) =>
         IF route[t] = "error_endpoint"
           THEN IF Failed(t)
                  THEN /\ response[t].code = HttpError
                       /\ response[t].body = [error |-> "Random error occurred!"]
                  ELSE /\ response[t].code = HttpOk
                       /\ response[t].body = [message |-> "No error this time!"]
           ELSE response[t].code = HttpOk

\* Both outcomes of /api/error have been answered.
C3_Witness ==
  /\ route["t1"] = "error_endpoint" /\ response["t1"].code = HttpError
  /\ route["t2"] = "error_endpoint" /\ response["t2"].code = HttpOk

(* ------------------------------- C4 ------------------------------------ *)

TheError == [type |-> "ValueError", msg |-> "Random error occurred!"]

LastEvent(s) == s.events[Len(s.events)]

\* C4: when a handler has propagated an error, handle_exception takes the span
\* that is current for that request; if there is one, it records the error on
\* it as an "exception" event and sets its status to Error with the error's
\* message; with no current span nothing is recorded.
C4_ErrorRecordedOnCurrentSpan ==
  \A t \in Threads :
    /\ pc[t] \in { "L158", "L159", "L161" } => handle[t].current_span = ctx[t]
    /\ pc[t] = "L161" /\ ctx[t] # NoSpan =>
         LET s == SpanAt(spans, ctx[t])
         IN  /\ s.events # << >>
             /\ LastEvent(s).name = "exception"
             /\ LastEvent(s).attributes["exception.type"] = exc[t].type
             /\ LastEvent(s).attributes["exception.message"] = exc[t].msg
             /\ s.status = "ERROR"
             /\ s.description = << "Random error occurred!" >>
    /\ pc[t] = "L161" /\ ctx[t] = NoSpan =>
         \A i \in 1..Len(spans[t]) :
           Len(SelectSeq(spans[t][i].events, LAMBDA e : e.name = "exception")) <= 1
    /\ Responded(t) /\ response[t].code = HttpError /\ instrumented =>
         /\ spans[t][1].status = "ERROR"
         /\ HasEvent(spans[t][1], "exception")

\* handle_exception has recorded the error on the request's current span.
C4_Witness ==
  \E t \in Threads :
    /\ pc[t] = "L161" /\ ctx[t] # NoSpan /\ exc[t] = TheError
    /\ SpanAt(spans, ctx[t]).status = "ERROR"
    /\ HasEvent(SpanAt(spans, ctx[t]), "exception")

(* ------------------------------- C5 ------------------------------------ *)

\* The branch of error_endpoint that was taken, read off the thread's position
\* and, once the handler is left, off its outcome.
OnFailingBranch(t) ==
  \/ pc[t] \in { "L143", "L144", "L145", "L146" } \cup InHandleException
  \/ exc[t] # NoExc
  \/ retval[t].code = HttpError

OnNonFailingBranch(t) ==
  \/ pc[t] \in { "L148", "L149", "L151" }
  \/ retval[t].code = HttpOk

C5_StatusMatchesBranch ==
  \A t \in Threads : \A i \in SpanNamed(t, "error_operation") :
    Closed(spans[t][i]) =>
      /\ spans[t][i].status = "ERROR" <=> OnFailingBranch(t)
      /\ spans[t][i].status = "OK" <=> OnNonFailingBranch(t)
      /\ OnFailingBranch(t) # OnNonFailingBranch(t)

C5_ErrorIsKept ==
  \A t \in Threads : \A i \in SpanNamed(t, "error_operation") :
    spans[t][i].status = "ERROR" /\ pc'[t] # "idle" => spans'[t][i].status = "ERROR"

\* C5: the error_operation span is closed with status Error exactly on the
\* failing branch and with status Ok exactly on the non-failing branch, and
\* once its status is Error no later step of the request (the error event,
\* the raise, the scope exit, the global handler) makes it Ok or Unset.
C5_ErrorStatus == [](C5_StatusMatchesBranch) /\ [][C5_ErrorIsKept]_vars

\* Both branches have been closed: one span ended Error, one ended Ok.
C5_Witness ==
  /\ \E i \in SpanNamed("t1", "error_operation") :
       Closed(spans["t1"][i]) /\ spans["t1"][i].status = "ERROR" /\ pc["t1"] = "sent"
  /\ \E i \in SpanNamed("t2", "error_operation") :
       Closed(spans["t2"][i]) /\ spans["t2"][i].status = "OK" /\ pc["t2"] = "sent"

(* ------------------------------- C6 ------------------------------------ *)

\* C6: a span closed without an explicit set_status has status Unset, never
\* Ok: every span of home, health, get_users, get_orders and slow_endpoint,
\* outer and nested, is closed Unset, and a span's status is Ok only for
\* error_operation on its non-failing branch.
C6_UnsetByDefault ==
  \A t \in Threads : \A i \in 1..Len(spans[t]) :
    /\ i \in HandlerSpanIdx(t) /\ route[t] # "error_endpoint" =>
         spans[t][i].status = "UNSET" /\ spans[t][i].description = << >>
    /\ spans[t][i].status = "OK" =>
         /\ spans[t][i].name = "error_operation"
         /\ ~Failed(t)
         /\ pc[t] \in { "L149", "L151", "X138" } \cup AfterHandler

\* A /api/slow request is answered with its four spans closed Unset while a
\* /api/error request is answered with its span closed Ok.
C6_Witness ==
  /\ route["t1"] = "slow_endpoint" /\ pc["t1"] = "sent"
  /\ Cardinality(HandlerSpanIdx("t1")) = 4
  /\ \A i \in HandlerSpanIdx("t1") :
       Closed(spans["t1"][i]) /\ spans["t1"][i].status = "UNSET"
  /\ route["t2"] = "error_endpoint" /\ pc["t2"] = "sent"
  /\ \E i \in HandlerSpanIdx("t2") : spans["t2"][i].status = "OK"

(* ------------------------------- C7 ------------------------------------ *)

\* Event names each handler writes.
EventNamesOf ==
  [ home           |-> { "Returning welcome message" },
    health         |-> { "Health check performed" },
    get_users      |-> { "Users fetched from database", "Users retrieved successfully" },
    get_orders     |-> { "Orders fetched from database", "Orders retrieved successfully" },
    slow_endpoint  |-> { "Starting slow operation", "Step 1 completed", "Step 2 completed",
                         "Step 3 completed", "Slow operation completed" },
    error_endpoint |-> { "Error triggered", "Operation completed without error",
                         "exception" } ]

Own(t, h) == h = NoSpan \/ (h[1] = t /\ h[2] \in 1..Len(spans[t]))

\* C7: with requests handled concurrently the current span is scoped to the
\* request: a span's parent is a span of the same request, what a request
\* holds as current or in its variables is one of its own spans, a span
\* carries only the attributes and events of its own request's handler, and
\* the delay a /api/slow response echoes is the one that request drew and
\* recorded on its own span.
C7_RequestScoped ==
  \A t \in Threads :
    pc[t] # "idle" =>
      /\ Own(t, ctx[t])
      /\ \A v \in DOMAIN handle[t] : Own(t, handle[t][v])
      /\ \A i \in 1..Len(tokens[t]) : Own(t, tokens[t][i])
      /\ \A i \in 1..Len(spans[t]) :
           /\ Own(t, spans[t][i].parent)
           /\ spans[t][i].kind = "INTERNAL" =>
                /\ spans[t][i].name \in Range(SpanNamesOf[route[t]])
                /\ Range(EventNames(spans[t][i])) \subseteq EventNamesOf[route[t]]
           /\ spans[t][i].kind = "SERVER" =>
                /\ spans[t][i].name = RouteOf[route[t]]
                /\ Range(EventNames(spans[t][i])) \subseteq { "exception" }
                /\ HasEvent(spans[t][i], "exception") => pc[t] \in { "L159", "L161", "send", "sent" }
           /\ "endpoint" \in DOMAIN spans[t][i].attributes =>
                spans[t][i].attributes["endpoint"] = RouteOf[route[t]]
           /\ "expected_delay_seconds" \in DOMAIN spans[t][i].attributes =>
                spans[t][i].attributes["expected_delay_seconds"] = delay[t]
      /\ Responded(t) /\ route[t] = "slow_endpoint" =>
           /\ response[t].body.delay_seconds = delay[t]
           /\ \E i \in SpanNamed(t, "slow_operation") :
                /\ spans[t][i].attributes["expected_delay_seconds"] = response[t].body.delay_seconds
                /\ spans[t][i].events[1].attributes["delay"] = response[t].body.delay_seconds

\* Two /api/slow requests with different draws are in their step spans at the
\* same time.
C7_Witness ==
  /\ route["t1"] = "slow_endpoint" /\ route["t2"] = "slow_endpoint"
  /\ pc["t1"] = "L118" /\ pc["t2"] = "L123"
  /\ delay["t1"] # delay["t2"]
  /\ ctx["t1"] = handle["t1"].step1 /\ ctx["t2"] = handle["t2"].step2

(* ------------------------------- C8 ------------------------------------ *)

\* The routes the application exposes.
ExposedRoutes == { RouteOf[h] : h \in Handlers }

\* C8: the endpoints list returned by home is exactly the set of routes the
\* application exposes: /, /health, /api/users, /api/orders, /api/slow and
\* /api/error.
C8_HomeListsEveryRoute ==
  \A t \in Threads :
    Responded(t) /\ route[t] = "home" =>
      Range(response[t].body.endpoints) = ExposedRoutes

(* ------------------------------- C9 ------------------------------------ *)

StepName == << "step_1_processing", "step_2_processing", "step_3_processing" >>

StepEvent == << "Step 1 completed", "Step 2 completed", "Step 3 completed" >>

\* Tenths of the delay slept once the first n steps have slept.
RECURSIVE TenthsAfter(_)
TenthsAfter(n) ==
  IF n = 0 THEN 0
  ELSE TenthsAfter(n - 1) + << Step1Tenths, Step2Tenths, Step3Tenths >>[n]

\* C9: in slow_endpoint the step spans run one after the other inside the
\* open slow_operation span: step 1 is opened after the 'Starting slow
\* operation' event, step n+1 only after step n emitted its completion event
\* and was closed, at most one step span is open at a time, 'Slow operation
\* completed' is added after step 3 is closed and before slow_operation is
\* closed, and the steps sleep 30%, 40% and 30% of the one drawn delay, in all
\* the whole delay echoed as delay_seconds.
C9_StepsInSequence ==
  \A t \in Threads :
    route[t] = "slow_endpoint" =>
      LET outer == SpanNamed(t, "slow_operation")
          step(n) == SpanNamed(t, StepName[n])
          open == { i \in HandlerSpanIdx(t) : spans[t][i].recording /\ i \notin outer }
          slow == spans[t][CHOOSE i \in outer : TRUE]
          done == Cardinality({ n \in 1..3 : \E i \in step(n) : HasEvent(spans[t][i], StepEvent[n]) })
          slepts == Cardinality({ n \in 1..3 : \E i \in step(n) :
                                    HasEvent(spans[t][i], StepEvent[n])
                                    \/ pc[t] = << "L119", "L124", "L129" >>[n] })
      IN  /\ Cardinality(open) <= 1
          /\ \A n \in 1..3 : Cardinality(step(n)) <= 1
          /\ \A n \in 1..3 : \A i \in step(n) :
               /\ spans[t][i].parent = handle[t].span
               /\ spans[t][i].recording => slow.recording
               /\ Len(slow.events) >= 1 /\ slow.events[1].name = "Starting slow operation"
               /\ ~spans[t][i].recording => EventNames(spans[t][i]) = << StepEvent[n] >>
               /\ n > 1 => \E j \in step(n - 1) :
                             /\ j < i
                             /\ Closed(spans[t][j])
                             /\ EventNames(spans[t][j]) = << StepEvent[n - 1] >>
          /\ outer # {} /\ HasEvent(slow, "Slow operation completed") =>
               /\ EventNames(slow) = << "Starting slow operation", "Slow operation completed" >>
               /\ \E i \in step(3) : Closed(spans[t][i])
               /\ open = {}
          /\ outer # {} /\ ~slow.recording => HasEvent(slow, "Slow operation completed")
          /\ slept[t] = delay[t] * TenthsAfter(slepts)
          /\ done = 3 => slept[t] = delay[t] * Tenths
          /\ Responded(t) =>
               /\ done = 3
               /\ slept[t] = response[t].body.delay_seconds * Tenths
               /\ response[t].body.delay_seconds \in SlowDelayLo..SlowDelayHi

\* A /api/slow request is answered after its three steps, and another one is
\* inside step 2 with step 1 closed.
C9_Witness ==
  /\ route["t1"] = "slow_endpoint" /\ Responded("t1")
  /\ slept["t1"] = delay["t1"] * Tenths /\ delay["t1"] > SlowDelayLo
  /\ route["t2"] = "slow_endpoint" /\ pc["t2"] = "L124"
  /\ Closed(SpanAt(spans, handle["t2"].step1))

(* ------------------------------- C10 ----------------------------------- *)

C10_HandlerSpanClosedFirst ==
  \A t \in Threads :
    pc[t] \in InHandleException =>
      /\ SpanNamed(t, "error_operation") # {}
      /\ \A i \in SpanNamed(t, "error_operation") :
           /\ Closed(spans[t][i])
           /\ ctx[t] # << t, i >>
           /\ handle[t].current_span # << t, i >>
      /\ ctx[t] = PreHandlerSpan(t)
      /\ pc[t] # "L156" => handle[t].current_span = PreHandlerSpan(t)

C10_HandlerSpanUntouched ==
  \A t \in Threads :
    pc[t] \in InHandleException =>
      \A i \in HandlerSpanIdx(t) : spans'[t][i] = spans[t][i]

\* C10: on the failing branch of error_endpoint the error_operation span is
\* closed and the current span restored before handle_exception runs, so the
\* span handle_exception reads as current and records on is the span from
\* before the handler (or no span), never error_operation, and
\* handle_exception leaves the handler's closed span as it is.
C10_HandleExceptionSeesOuterSpan ==
  [](C10_HandlerSpanClosedFirst) /\ [][C10_HandlerSpanUntouched]_vars

\* handle_exception is about to set the status of the server span while the
\* error_operation span is closed.
C10_Witness ==
  \E t \in Threads :
    /\ pc[t] = "L159" /\ instrumented
    /\ handle[t].current_span = << t, 1 >>
    /\ \E i \in SpanNamed(t, "error_operation") : Closed(spans[t][i])

====
